---- MODULE Spec2Model ----
(***************************************************************************)
(* Model of the new-solver fulfillment context                             *)
(* (compiler/rustc_trait_selection/src/solve/fulfill.rs).                  *)
(*                                                                         *)
(* The engine owns an ObligationStorage {pending, overflowed} and drives   *)
(* the solver (evaluate_root_goal) over the pending obligations until a    *)
(* round makes no change or the recursion limit is exceeded.  The solver   *)
(* and the inference context live outside fulfill.rs; they are modelled    *)
(* as a deterministic function of (predicate, inference state) and as an   *)
(* inference state with a stack of open snapshots.                         *)
(***************************************************************************)
EXTENDS Integers, Sequences, FiniteSets, TLC

\* ---------------------------------------------------------------- bounds
MaxObligations == 3     \* obligations registered in one run
MaxLimit == 1           \* recursion limits 0..MaxLimit are explored
MaxSnapshots == 1       \* open snapshots of the inference context
MaxInfer == 1           \* inference states 0..MaxInfer
MaxGoals == 3           \* goals of a proof tree
MaxCandidates == 2      \* candidates of a goal

InferStates == 0..MaxInfer

\* ------------------------------------------------ solver results (oracle)
Yes == [c |-> "Yes", cause |-> "None", suggest_increasing_limit |-> FALSE]
MaybeAmbiguity == [c |-> "Maybe", cause |-> "Ambiguity", suggest_increasing_limit |-> FALSE]
MaybeOverflow(s) == [c |-> "Maybe", cause |-> "Overflow", suggest_increasing_limit |-> s]

Ok(changed, certainty, infer) ==
    [ok |-> TRUE, changed |-> changed, certainty |-> certainty, infer |-> infer]
NoSolution(infer) ==
    [ok |-> FALSE, changed |-> FALSE, certainty |-> Yes, infer |-> infer]

\* The predicates a caller may register.  Each names one deterministic
\* behaviour of the solver as a function of the inference state.
Predicates ==
    {"Fails", "Stalls", "Deepens", "Binds", "Narrows",
     "NeedsHold", "NeedsFail", "NeedsDeep"}

\* infcx.evaluate_root_goal(goal, _).0 : the answer and the inference state
\* the evaluation leaves behind.  changed = FALSE leaves the state alone.
EvaluateRootGoal(pred, infer) ==
    CASE pred = "Fails"   -> NoSolution(infer)
      [] pred = "Stalls"  -> Ok(FALSE, MaybeAmbiguity, infer)
      [] pred = "Deepens" -> Ok(TRUE, MaybeAmbiguity, (infer + 1) % (MaxInfer + 1))
      [] pred = "Binds"   -> IF infer = 0 THEN Ok(TRUE, Yes, 1)
                                          ELSE Ok(FALSE, Yes, infer)
      [] pred = "Narrows" -> IF infer = 0 THEN Ok(TRUE, MaybeAmbiguity, 1)
                                          ELSE Ok(FALSE, MaybeAmbiguity, infer)
      [] pred = "NeedsHold" -> IF infer = 0 THEN Ok(FALSE, MaybeAmbiguity, infer)
                                            ELSE Ok(FALSE, Yes, infer)
      [] pred = "NeedsFail" -> IF infer = 0 THEN Ok(FALSE, MaybeAmbiguity, infer)
                                            ELSE NoSolution(infer)
      [] pred = "NeedsDeep" -> IF infer = 0 THEN Ok(FALSE, MaybeOverflow(FALSE), infer)
                                            ELSE Ok(TRUE, MaybeOverflow(TRUE), infer)

\* Limit::value_within_limit
ValueWithinLimit(limit, value) == value <= limit

\* infcx.probe(|_| f): whatever f did to the inference state is rolled back.
Probe(before, after) == before

\* ------------------------------------------------------------------ state
VARIABLES
    pending,             \* ObligationStorage::pending
    overflowed,          \* ObligationStorage::overflowed
    usable_in_snapshot,  \* FulfillmentCtxt::usable_in_snapshot
    snapshots,           \* the context's open snapshots (saved inference states)
    infer,               \* the shared inference state
    recursion_limit,     \* tcx.recursion_limit()
    registered,          \* number of obligations registered so far
    solved,              \* ids dropped because the solver answered Yes
    reported,            \* ids returned as the root_obligation of an error
    panicked,            \* an assertion or bug!() fired
    ret,                 \* the last call: its pre-state, result and trace
    proof_tree,          \* the proof tree of a failed root obligation
    best                 \* what find_best_leaf_obligation returned for it

vars == <<pending, overflowed, usable_in_snapshot, snapshots, infer,
          recursion_limit, registered, solved, reported, panicked, ret,
          proof_tree, best>>

\* infcx.num_open_snapshots()
NumOpenSnapshots == Len(snapshots)

\* ---------------------------------------------------------------- helpers
Ids(s) == {s[k].id : k \in 1..Len(s)}

IsPrefix(s, t) == Len(s) <= Len(t) /\ SubSeq(t, 1, Len(s)) = s

Some(b) == [some |-> TRUE, val |-> b]
None == [some |-> FALSE, val |-> FALSE]

PreState == [pending |-> pending, overflowed |-> overflowed, infer |-> infer,
             usable_in_snapshot |-> usable_in_snapshot,
             num_open_snapshots |-> NumOpenSnapshots]

\* What ret.follows holds: the call the last call came directly after.
NoFollows == [op |-> "none", exhausted |-> FALSE, rounds |-> 0]
Follows == [op |-> ret.op, exhausted |-> ret.exhausted, rounds |-> Len(ret.starts)]

Ret(op) == [op |-> op, pre |-> PreState, errors |-> <<>>, obligations |-> <<>>,
            exhausted |-> FALSE, starts |-> <<>>, evals |-> <<>>, probes |-> <<>>,
            follows |-> NoFollows]

\* What ret holds when the last step was the context's, not the engine's.
NoCall == [op |-> "none",
           pre |-> [pending |-> <<>>, overflowed |-> <<>>, infer |-> 0,
                    usable_in_snapshot |-> 0, num_open_snapshots |-> 0],
           errors |-> <<>>, obligations |-> <<>>,
           exhausted |-> FALSE, starts |-> <<>>, evals |-> <<>>, probes |-> <<>>,
           follows |-> [op |-> "none", exhausted |-> FALSE, rounds |-> 0]]

\* ------------------------------------------------------ ObligationStorage
\* ObligationStorage::register
StorageRegister(pend, obligation) == Append(pend, obligation)

\* ObligationStorage::clone_pending
ClonePending(pend, ovf) == pend \o ovf

\* ObligationStorage::take_pending: the returned obligations and the store left
TakePending(pend, ovf) ==
    [obligations |-> pend \o ovf, pending |-> <<>>, overflowed |-> <<>>]

\* ObligationStorage::unstalled_for_select: mem::take(&mut self.pending)
\* Variant: the round iterates over pending without taking it.
UnstalledForSelect_KeepsPending(pend) == [iter |-> pend, pending |-> pend]

UnstalledForSelect(pend) == [iter |-> pend, pending |-> <<>>]

\* Variant: every obligation the solver does not reject is quarantined.
OverflowPredicate_AnyOk(result) == result.ok

\* The closure of extract_if: evaluate the obligation, keep it unless the
\* solver answers Ok with has_changed.
OverflowPredicate(result) == result.ok /\ result.changed

\* pending.extract_if(..) inside the probe: the obligations are evaluated in
\* order, each in the inference state its predecessors left inside the probe.
RECURSIVE ExtractIf(_, _)
ExtractIf(rest, acc) ==
    IF rest = <<>> THEN acc
    ELSE LET o == Head(rest)
             result == EvaluateRootGoal(o.pred, acc.infer)
             logged == Append(acc.probes, [ob |-> o, infer |-> acc.infer, result |-> result])
         IN ExtractIf(Tail(rest),
                IF OverflowPredicate(result)
                THEN [acc EXCEPT !.extracted = Append(@, o),
                                 !.infer = result.infer, !.probes = logged]
                ELSE [acc EXCEPT !.pending = Append(@, o),
                                 !.infer = result.infer, !.probes = logged])

\* Variant: the quarantined obligations are copied, not extracted.
OnFulfillmentOverflow_Copies(pend, ovf, inf) ==
    LET run == ExtractIf(pend, [pending |-> <<>>, extracted |-> <<>>,
                                infer |-> inf, probes |-> <<>>])
    IN [pending |-> pend,
        overflowed |-> ovf \o run.extracted,
        infer |-> Probe(inf, run.infer),
        probes |-> run.probes]

\* Variant: the re-evaluations run outside any speculative region.
OnFulfillmentOverflow_NoProbe(pend, ovf, inf) ==
    LET run == ExtractIf(pend, [pending |-> <<>>, extracted |-> <<>>,
                                infer |-> inf, probes |-> <<>>])
    IN [pending |-> run.pending,
        overflowed |-> ovf \o run.extracted,
        infer |-> run.infer,
        probes |-> run.probes]

\* ObligationStorage::on_fulfillment_overflow
OnFulfillmentOverflow(pend, ovf, inf) ==
    LET run == ExtractIf(pend, [pending |-> <<>>, extracted |-> <<>>,
                                infer |-> inf, probes |-> <<>>])
    IN [pending |-> run.pending,
        overflowed |-> ovf \o run.extracted,
        infer |-> Probe(inf, run.infer),
        probes |-> run.probes]

\* ------------------------------------------------------------ error values
AmbiguityCode(overflow) == [kind |-> "Ambiguity", overflow |-> overflow]
\* Selection / projection / subtype errors: a true error, no overflow field.
\* The choice among them by predicate kind, and the leaf obligation of an
\* error, play no part in the store and are left out of the error value.
TrueErrorCode == [kind |-> "Error", overflow |-> None]

\* fulfillment_error_for_no_solution
FulfillmentErrorForNoSolution(root_obligation) ==
    [code |-> TrueErrorCode, root_obligation |-> root_obligation]

\* Variant: the limit hint of a Maybe(Overflow) answer is not copied.
StalledCode_DropsHint(result) ==
    IF result.ok /\ result.certainty.c = "Maybe"
    THEN IF result.certainty.cause = "Ambiguity"
         THEN AmbiguityCode(None)
         ELSE AmbiguityCode(Some(TRUE))
    ELSE [kind |-> "bug", overflow |-> None]

\* The match inside the probe of fulfillment_error_for_stalled; "bug" is bug!().
StalledCode(result) ==
    IF result.ok /\ result.certainty.c = "Maybe"
    THEN IF result.certainty.cause = "Ambiguity"
         THEN AmbiguityCode(None)
         ELSE AmbiguityCode(Some(result.certainty.suggest_increasing_limit))
    ELSE [kind |-> "bug", overflow |-> None]

\* fulfillment_error_for_stalled: the probe leaves the inference state alone.
FulfillmentErrorForStalled(inf, obligation) ==
    [code |-> StalledCode(EvaluateRootGoal(obligation.pred, inf)),
     root_obligation |-> obligation]

\* The inference state fulfillment_error_for_stalled leaves: its evaluation
\* runs inside infcx.probe.
StalledInfer(inf, obligation) ==
    Probe(inf, EvaluateRootGoal(obligation.pred, inf).infer)

\* Variant: a quarantined obligation is reported without the overflow flag.
FulfillmentErrorForOverflowed_NoFlag(obligation) ==
    [code |-> AmbiguityCode(None), root_obligation |-> obligation]

\* The error built for an obligation drained from overflowed.
FulfillmentErrorForOverflowed(obligation) ==
    [code |-> AmbiguityCode(Some(TRUE)), root_obligation |-> obligation]

\* overflowed.drain(..).map(..)
OverflowedErrors(ovf) ==
    [k \in 1..Len(ovf) |-> FulfillmentErrorForOverflowed(ovf[k])]

\* ------------------------------------------------- select_where_possible
\* Variant: the budget check lets one more round through.
BudgetExceeded_OneLate(limit, i) == ~ValueWithinLimit(limit + 1, i)

\* Line 152: the round budget is exceeded.
BudgetExceeded(limit, i) == ~ValueWithinLimit(limit, i)

\* Variant: an obligation the solver leaves at Maybe is not registered again.
EvaluateObligation_DropsMaybe(st, obligation) ==
    LET result == EvaluateRootGoal(obligation.pred, st.infer)
        st1 == [st EXCEPT !.evals = Append(@, [round |-> st.round, ob |-> obligation,
                                               infer |-> st.infer, result |-> result])]
    IN IF ~result.ok
       THEN [st1 EXCEPT !.errors = Append(@, FulfillmentErrorForNoSolution(obligation))]
       ELSE LET st2 == [st1 EXCEPT !.has_changed = @ \/ result.changed,
                                   !.infer = result.infer]
            IN IF result.certainty.c = "Yes"
               THEN [st2 EXCEPT !.solved = @ \cup {obligation.id}]
               ELSE st2

\* Variant: every Ok answer counts as a change, whatever its flag.
EvaluateObligation_AlwaysChanged(st, obligation) ==
    LET result == EvaluateRootGoal(obligation.pred, st.infer)
        st1 == [st EXCEPT !.evals = Append(@, [round |-> st.round, ob |-> obligation,
                                               infer |-> st.infer, result |-> result])]
    IN IF ~result.ok
       THEN [st1 EXCEPT !.errors = Append(@, FulfillmentErrorForNoSolution(obligation))]
       ELSE LET st2 == [st1 EXCEPT !.has_changed = TRUE,
                                   !.infer = result.infer]
            IN IF result.certainty.c = "Yes"
               THEN [st2 EXCEPT !.solved = @ \cup {obligation.id}]
               ELSE [st2 EXCEPT !.pending = StorageRegister(@, obligation)]

\* Variant: an obligation the solver fails is reported and registered again.
EvaluateObligation_RequeuesFailed(st, obligation) ==
    LET result == EvaluateRootGoal(obligation.pred, st.infer)
        st1 == [st EXCEPT !.evals = Append(@, [round |-> st.round, ob |-> obligation,
                                               infer |-> st.infer, result |-> result])]
    IN IF ~result.ok
       THEN [st1 EXCEPT !.errors = Append(@, FulfillmentErrorForNoSolution(obligation)),
                        !.pending = StorageRegister(@, obligation)]
       ELSE LET st2 == [st1 EXCEPT !.has_changed = @ \/ result.changed,
                                   !.infer = result.infer]
            IN IF result.certainty.c = "Yes"
               THEN [st2 EXCEPT !.solved = @ \cup {obligation.id}]
               ELSE [st2 EXCEPT !.pending = StorageRegister(@, obligation)]

\* Variant: a Yes answer counts as a change, whatever its flag.
EvaluateObligation_YesIsProgress(st, obligation) ==
    LET result == EvaluateRootGoal(obligation.pred, st.infer)
        st1 == [st EXCEPT !.evals = Append(@, [round |-> st.round, ob |-> obligation,
                                               infer |-> st.infer, result |-> result])]
    IN IF ~result.ok
       THEN [st1 EXCEPT !.errors = Append(@, FulfillmentErrorForNoSolution(obligation))]
       ELSE LET st2 == [st1 EXCEPT !.has_changed = @ \/ result.changed
                                                     \/ result.certainty.c = "Yes",
                                   !.infer = result.infer]
            IN IF result.certainty.c = "Yes"
               THEN [st2 EXCEPT !.solved = @ \cup {obligation.id}]
               ELSE [st2 EXCEPT !.pending = StorageRegister(@, obligation)]

\* The body of the inner for loop for one obligation.
EvaluateObligation(st, obligation) ==
    LET result == EvaluateRootGoal(obligation.pred, st.infer)
        st1 == [st EXCEPT !.evals = Append(@, [round |-> st.round, ob |-> obligation,
                                               infer |-> st.infer, result |-> result])]
    IN IF ~result.ok
       THEN [st1 EXCEPT !.errors = Append(@, FulfillmentErrorForNoSolution(obligation))]
       ELSE LET st2 == [st1 EXCEPT !.has_changed = @ \/ result.changed,
                                   !.infer = result.infer]
            IN IF result.certainty.c = "Yes"
               THEN [st2 EXCEPT !.solved = @ \cup {obligation.id}]
               ELSE [st2 EXCEPT !.pending = StorageRegister(@, obligation)]

RECURSIVE ForEachUnstalled(_, _)
ForEachUnstalled(iter, st) ==
    IF iter = <<>> THEN st
    ELSE ForEachUnstalled(Tail(iter), EvaluateObligation(st, Head(iter)))

\* Variant: the errors of the completed rounds are dropped on overflow.
ReturnOnOverflow_ForgetsErrors(st) ==
    LET q == OnFulfillmentOverflow(st.pending, st.overflowed, st.infer)
    IN [st EXCEPT !.pending = q.pending, !.overflowed = q.overflowed,
                  !.infer = q.infer, !.probes = q.probes, !.exhausted = TRUE,
                  !.errors = <<>>]

\* Variant: the obligations quarantined on overflow are returned as errors.
ReturnOnOverflow_ReportsOverflow(st) ==
    LET q == OnFulfillmentOverflow(st.pending, st.overflowed, st.infer)
    IN [st EXCEPT !.pending = q.pending, !.overflowed = q.overflowed,
                  !.infer = q.infer, !.probes = q.probes, !.exhausted = TRUE,
                  !.errors = @ \o OverflowedErrors(q.overflowed)]

\* Lines 153-155: quarantine and return the errors accumulated so far.
ReturnOnOverflow(st) ==
    LET q == OnFulfillmentOverflow(st.pending, st.overflowed, st.infer)
    IN [st EXCEPT !.pending = q.pending, !.overflowed = q.overflowed,
                  !.infer = q.infer, !.probes = q.probes, !.exhausted = TRUE]

\* The outer loop, for i in 0.. 
RECURSIVE SelectLoop(_, _)
SelectLoop(i, st) ==
    IF BudgetExceeded(st.limit, i) THEN ReturnOnOverflow(st)
    ELSE LET taken == UnstalledForSelect(st.pending)
             round == ForEachUnstalled(taken.iter,
                          [st EXCEPT !.pending = taken.pending, !.has_changed = FALSE,
                                     !.round = i, !.starts = Append(@, taken.iter)])
         IN IF ~round.has_changed THEN round ELSE SelectLoop(i + 1, round)

\* The whole of select_where_possible after its assertion.
RunSelect(pend, ovf, inf, limit) ==
    SelectLoop(0, [pending |-> pend, overflowed |-> ovf, infer |-> inf, limit |-> limit,
                   errors |-> <<>>, has_changed |-> FALSE, round |-> 0,
                   solved |-> {}, exhausted |-> FALSE,
                   starts |-> <<>>, evals |-> <<>>, probes |-> <<>>])

\* ----------------------------------------------------- FulfillmentCtxt API
Obligation(id, pred) == [id |-> id, pred |-> pred]

\* Variant: the obligation is registered without the snapshot assertion.
RegisterPredicateObligation_Unchecked(pend, usable, open, obligation) ==
    [panic |-> FALSE, pending |-> StorageRegister(pend, obligation)]

\* register_predicate_obligation: assert_eq!, then obligations.register.
RegisterPredicateObligation(pend, usable, open, obligation) ==
    IF usable # open
    THEN [panic |-> TRUE, pending |-> pend]
    ELSE [panic |-> FALSE, pending |-> StorageRegister(pend, obligation)]

\* The assertion that opens select_where_possible.
SelectAssertion(usable, open) == usable = open

\* pending.drain(..).map(fulfillment_error_for_stalled).collect()
StalledErrors(pend, inf) ==
    [k \in 1..Len(pend) |-> FulfillmentErrorForStalled(inf, pend[k])]

\* The inference state after the re-probes of the drained pending list.
RECURSIVE CollectInfer(_, _)
CollectInfer(pend, inf) ==
    IF pend = <<>> THEN inf
    ELSE CollectInfer(Tail(pend), StalledInfer(inf, Head(pend)))

\* collect_remaining_errors.  A bug!() in the first drain unwinds: the Drain
\* guard still empties pending, overflowed is not reached, nothing is returned.
CollectErrors(pend, ovf, inf) ==
    LET stalled == StalledErrors(pend, inf)
    IN IF \E k \in 1..Len(stalled) : stalled[k].code.kind = "bug"
       THEN [panic |-> TRUE, errors |-> <<>>, pending |-> <<>>, overflowed |-> ovf,
             infer |-> CollectInfer(pend, inf)]
       ELSE [panic |-> FALSE, errors |-> stalled \o OverflowedErrors(ovf),
             pending |-> <<>>, overflowed |-> <<>>,
             infer |-> CollectInfer(pend, inf)]

\* The probes fulfillment_error_for_stalled makes, up to the first bug!().
RECURSIVE StalledProbes(_, _)
StalledProbes(pend, inf) ==
    IF pend = <<>> THEN <<>>
    ELSE LET result == EvaluateRootGoal(Head(pend).pred, inf)
             entry == [ob |-> Head(pend), infer |-> inf, result |-> result]
         IN IF StalledCode(result).kind = "bug" THEN <<entry>>
            ELSE <<entry>> \o StalledProbes(Tail(pend), inf)

\* ------------------------------------------------- best leaf obligation
\* A proof tree is a sequence of goals, the root first.  A goal records its
\* parent goal and the candidate of the parent it is a nested goal of, its
\* GoalSource, its result, whether its predicate is a trait predicate, how
\* many candidates it has and the kind of its first candidate.  The nested
\* goals of a candidate come in the order of the sequence.
GoalSources == {"Misc", "ImplWhereBound", "InstantiateHigherRanked"}
GoalResults == {"Yes", "NoSolution"}
CandidateKinds == {"Impl", "BuiltinImpl", "ParamEnv"}

\* candidate.instantiate_nested_goals(..) of the c-th candidate of a goal
NestedGoals(tree, goal, c) ==
    LET IsNested(n) == tree[n].parent = goal /\ tree[n].candidate = c
    IN SelectSeq([n \in 1..Len(tree) |-> n], IsNested)

\* tcx.predicates_of(impl_def_id): one predicate for each where-bound goal
\* of the impl candidate.
ImplPredicates(tree, goal) ==
    Cardinality({n \in 1..Len(tree) :
        /\ tree[n].parent = goal /\ tree[n].candidate = 1
        /\ tree[n].source = "ImplWhereBound"})

\* An obligation: the goal its predicate is of, its cause as the chain of
\* derivations from the root cause, its recursion depth.
RootObligation ==
    [predicate |-> 1, cause |-> <<>>, recursion_depth |-> 0, resolved |-> FALSE]

\* infcx.resolve_vars_if_possible
ResolveVarsIfPossible(obligation) == [obligation EXCEPT !.resolved = TRUE]

ImplDerivedObligation(parent_trait_pred, idx) ==
    [code |-> "ImplDerivedObligation", parent_trait_pred |-> parent_trait_pred,
     impl_def_predicate_index |-> Some(idx)]
BuiltinDerivedObligation(parent_trait_pred) ==
    [code |-> "BuiltinDerivedObligation", parent_trait_pred |-> parent_trait_pred,
     impl_def_predicate_index |-> None]

\* derive_cause
DeriveCause(tree, candidate_kind, cause, idx, parent_trait_pred) ==
    CASE candidate_kind = "Impl" ->
            IF idx < ImplPredicates(tree, parent_trait_pred)
            THEN Append(cause, ImplDerivedObligation(parent_trait_pred, idx))
            ELSE cause
      [] candidate_kind = "BuiltinImpl" ->
            Append(cause, BuiltinDerivedObligation(parent_trait_pred))
      [] OTHER -> cause

\* Variant: a goal with several candidates is entered through the first.
SingleCandidate_AtLeastOne(tree, goal) == tree[goal].candidates >= 1

\* let [candidate] = candidates.as_slice()
SingleCandidate(tree, goal) == tree[goal].candidates = 1

\* Variant: no nested goal is taken to hold.
Holds_Never(tree, nested_goal) == FALSE

\* matches!(nested_goal.result(), Ok(Certainty::Yes))
Holds(tree, nested_goal) == tree[nested_goal].result = "Yes"

\* Variant: the derived obligation keeps the recursion depth of its parent.
DerivedObligation_KeepsDepth(tree, goal, self_obligation, nested_goal, impl_where_bound_count) ==
    IF tree[nested_goal].source = "ImplWhereBound"
    THEN [predicate |-> nested_goal,
          cause |-> DeriveCause(tree, tree[goal].kind, self_obligation.cause,
                                impl_where_bound_count, goal),
          recursion_depth |-> self_obligation.recursion_depth,
          resolved |-> TRUE]
    ELSE self_obligation

\* The match on nested_goal.source() for a goal that is not Misc: the
\* obligation the visitor carries into the nested goal.
DerivedObligation(tree, goal, self_obligation, nested_goal, impl_where_bound_count) ==
    IF tree[nested_goal].source = "ImplWhereBound"
    THEN [predicate |-> nested_goal,
          cause |-> DeriveCause(tree, tree[goal].kind, self_obligation.cause,
                                impl_where_bound_count, goal),
          recursion_depth |-> self_obligation.recursion_depth + 1,
          resolved |-> TRUE]
    ELSE self_obligation

\* Variant: every nested goal that is not Misc advances the count.
NextWhereBoundCount_CountsAll(source, impl_where_bound_count) ==
    impl_where_bound_count + 1

\* impl_where_bound_count += 1, in the ImplWhereBound arm only
NextWhereBoundCount(source, impl_where_bound_count) ==
    IF source = "ImplWhereBound" THEN impl_where_bound_count + 1
    ELSE impl_where_bound_count

\* ControlFlow::Break(obligation), with the descent steps that led to it
Break(obligation) == [broke |-> TRUE, leaf |-> obligation, steps |-> <<>>]

\* visit_goal, and its loop over the nested goals of the single candidate.
\* Every visit_goal ends in Break, so the ? after with_derived_obligation
\* returns from the first nested goal that is entered.
RECURSIVE VisitGoal(_, _, _)
RECURSIVE VisitNestedGoals(_, _, _, _, _)
VisitGoal(tree, goal, self_obligation) ==
    IF ~SingleCandidate(tree, goal) THEN Break(self_obligation)
    ELSE IF ~tree[goal].trait THEN Break(self_obligation)
    ELSE VisitNestedGoals(tree, goal, self_obligation, NestedGoals(tree, goal, 1), 0)

VisitNestedGoals(tree, goal, self_obligation, nested, impl_where_bound_count) ==
    IF nested = <<>> THEN Break(self_obligation)
    ELSE LET nested_goal == Head(nested)
             source == tree[nested_goal].source
         IN IF source = "Misc"
            THEN VisitNestedGoals(tree, goal, self_obligation, Tail(nested),
                                  impl_where_bound_count)
            ELSE LET obligation == DerivedObligation(tree, goal, self_obligation,
                                       nested_goal, impl_where_bound_count)
                     count == NextWhereBoundCount(source, impl_where_bound_count)
                 IN IF Holds(tree, nested_goal)
                    THEN VisitNestedGoals(tree, goal, self_obligation, Tail(nested), count)
                    ELSE LET res == VisitGoal(tree, nested_goal, obligation)
                         IN [res EXCEPT !.steps =
                                <<[from |-> goal, to |-> nested_goal, source |-> source,
                                   parent |-> self_obligation, derived |-> obligation]>>
                                \o @]

\* find_best_leaf_obligation
FindBestLeafObligation(tree, obligation) ==
    LET resolved == ResolveVarsIfPossible(obligation)
        res == VisitGoal(tree, 1, resolved)
    IN [leaf |-> IF res.broke THEN res.leaf ELSE resolved, steps |-> res.steps]

NoBest == [leaf |-> RootObligation, steps |-> <<>>, found |-> FALSE]

\* ---------------------------------------------------------------- actions
Init ==
    /\ pending = <<>>
    /\ overflowed = <<>>
    /\ snapshots \in {<<>>, <<0>>}
    /\ usable_in_snapshot = Len(snapshots)
    /\ infer = 0
    /\ recursion_limit \in 0..MaxLimit
    /\ registered = 0
    /\ solved = {}
    /\ reported = {}
    /\ panicked = FALSE
    /\ ret = NoCall
    /\ proof_tree = <<>>
    /\ best = NoBest

Register(pred) ==
    /\ ~panicked
    /\ registered < MaxObligations
    /\ LET r == RegisterPredicateObligation(pending, usable_in_snapshot,
                    NumOpenSnapshots, Obligation(registered + 1, pred))
       IN /\ pending' = r.pending
          /\ panicked' = r.panic
          /\ registered' = IF r.panic THEN registered ELSE registered + 1
          /\ ret' = [Ret("register") EXCEPT
                        !.obligations = <<Obligation(registered + 1, pred)>>]
    /\ UNCHANGED <<proof_tree, best>>
    /\ UNCHANGED <<overflowed, usable_in_snapshot, snapshots, infer,
                   recursion_limit, solved, reported>>

SelectWherePossible ==
    /\ ~panicked
    /\ IF ~SelectAssertion(usable_in_snapshot, NumOpenSnapshots)
       THEN /\ panicked' = TRUE
            /\ ret' = Ret("select")
            /\ UNCHANGED <<pending, overflowed, infer, solved, reported>>
       ELSE LET run == RunSelect(pending, overflowed, infer, recursion_limit)
            IN /\ pending' = run.pending
               /\ overflowed' = run.overflowed
               /\ infer' = run.infer
               /\ solved' = solved \cup run.solved
               /\ reported' = reported \cup
                      {run.errors[k].root_obligation.id : k \in 1..Len(run.errors)}
               /\ panicked' = FALSE
               /\ ret' = [Ret("select") EXCEPT
                             !.errors = run.errors, !.exhausted = run.exhausted,
                             !.starts = run.starts, !.evals = run.evals,
                             !.probes = run.probes]
    /\ UNCHANGED <<proof_tree, best>>
    /\ UNCHANGED <<usable_in_snapshot, snapshots, recursion_limit, registered>>

CollectRemainingErrors ==
    /\ ~panicked
    /\ LET r == CollectErrors(pending, overflowed, infer)
       IN /\ pending' = r.pending
          /\ overflowed' = r.overflowed
          /\ infer' = r.infer
          /\ panicked' = r.panic
          /\ reported' = reported \cup
                 {r.errors[k].root_obligation.id : k \in 1..Len(r.errors)}
          /\ ret' = [Ret("collect") EXCEPT
                        !.errors = r.errors, !.probes = StalledProbes(pending, infer),
                        !.follows = Follows]
    /\ UNCHANGED <<proof_tree, best>>
    /\ UNCHANGED <<usable_in_snapshot, snapshots, recursion_limit,
                   registered, solved>>

PendingObligations ==
    /\ ~panicked
    /\ ret' = [Ret("pending") EXCEPT !.obligations = ClonePending(pending, overflowed)]
    /\ UNCHANGED <<proof_tree, best>>
    /\ UNCHANGED <<pending, overflowed, usable_in_snapshot, snapshots, infer,
                   recursion_limit, registered, solved, reported, panicked>>

DrainUnstalledObligations ==
    /\ ~panicked
    /\ LET r == TakePending(pending, overflowed)
       IN /\ pending' = r.pending
          /\ overflowed' = r.overflowed
          /\ ret' = [Ret("drain") EXCEPT !.obligations = r.obligations]
    /\ UNCHANGED <<proof_tree, best>>
    /\ UNCHANGED <<usable_in_snapshot, snapshots, infer, recursion_limit,
                   registered, solved, reported, panicked>>

\* The context opens a snapshot, remembering the inference state.
StartSnapshot ==
    /\ ~panicked
    /\ Len(snapshots) < MaxSnapshots
    /\ snapshots' = Append(snapshots, infer)
    /\ ret' = NoCall
    /\ UNCHANGED <<proof_tree, best>>
    /\ UNCHANGED <<pending, overflowed, usable_in_snapshot, infer, recursion_limit,
                   registered, solved, reported, panicked>>

\* The context rolls its innermost snapshot back.
RollbackTo ==
    /\ ~panicked
    /\ snapshots # <<>>
    /\ infer' = snapshots[Len(snapshots)]
    /\ snapshots' = SubSeq(snapshots, 1, Len(snapshots) - 1)
    /\ ret' = NoCall
    /\ UNCHANGED <<proof_tree, best>>
    /\ UNCHANGED <<pending, overflowed, usable_in_snapshot, recursion_limit,
                   registered, solved, reported, panicked>>

\* The context commits its innermost snapshot.
CommitFrom ==
    /\ ~panicked
    /\ snapshots # <<>>
    /\ snapshots' = SubSeq(snapshots, 1, Len(snapshots) - 1)
    /\ ret' = NoCall
    /\ UNCHANGED <<proof_tree, best>>
    /\ UNCHANGED <<pending, overflowed, usable_in_snapshot, infer, recursion_limit,
                   registered, solved, reported, panicked>>

Next ==
    \/ \E pred \in Predicates : Register(pred)
    \/ SelectWherePossible
    \/ CollectRemainingErrors
    \/ PendingObligations
    \/ DrainUnstalledObligations
    \/ StartSnapshot
    \/ RollbackTo
    \/ CommitFrom

Spec == Init /\ [][Next]_vars

\* Only register, select_where_possible and the read-only snapshot are called.
NextRegisterSelect ==
    \/ \E pred \in Predicates : Register(pred)
    \/ SelectWherePossible
    \/ PendingObligations
    \/ StartSnapshot
    \/ RollbackTo
    \/ CommitFrom

SpecRegisterSelect == Init /\ [][NextRegisterSelect]_vars

\* register, select_where_possible and collect_remaining_errors are called.
NextCollect ==
    \/ \E pred \in Predicates : Register(pred)
    \/ SelectWherePossible
    \/ CollectRemainingErrors
    \/ StartSnapshot
    \/ RollbackTo
    \/ CommitFrom

SpecCollect == Init /\ [][NextCollect]_vars

\* ------------------------------------------------- proof-tree actions
\* The goals a proof tree is made of.  What visit_goal never reads of a goal
\* is fixed: a Misc goal or a goal that holds is not entered, a goal that has
\* not exactly one candidate is left before its predicate is looked at, and
\* the kind of a candidate is read only to derive a cause from a trait
\* predicate.
GoalShapes ==
    {g \in [source : GoalSources, result : GoalResults, trait : BOOLEAN,
            candidates : 0..MaxCandidates, kind : CandidateKinds] :
        /\ (g.result = "Yes" \/ g.source = "Misc") => g.candidates = 0
        /\ g.candidates # 1 => g.trait
        /\ (g.candidates # 1 \/ ~g.trait) => g.kind = "ParamEnv"}

Goal(parent, candidate, shape) ==
    [parent |-> parent, candidate |-> candidate, source |-> shape.source,
     result |-> shape.result, trait |-> shape.trait,
     candidates |-> shape.candidates, kind |-> shape.kind]

\* The roots: failed goals, nested in nothing.
RootShapes ==
    {g \in [source : {"Misc"}, result : {"NoSolution"}, trait : BOOLEAN,
            candidates : 0..MaxCandidates, kind : CandidateKinds] :
        /\ g.candidates # 1 => g.trait
        /\ (g.candidates # 1 \/ ~g.trait) => g.kind = "ParamEnv"}

EngineIdle ==
    /\ pending = <<>> /\ overflowed = <<>>
    /\ snapshots = <<>> /\ usable_in_snapshot = 0
    /\ infer = 0 /\ recursion_limit = 0
    /\ registered = 0 /\ solved = {} /\ reported = {}
    /\ panicked = FALSE /\ ret = NoCall

\* The solver failed a root obligation and left the root of its proof tree.
InitLeaf ==
    /\ EngineIdle
    /\ proof_tree \in {<<Goal(0, 0, shape)>> : shape \in RootShapes}
    /\ best = NoBest

\* The proof tree has one more nested goal, under a candidate of a goal.
AddGoal(parent, candidate, shape) ==
    /\ Len(proof_tree) < MaxGoals
    /\ candidate <= proof_tree[parent].candidates
    /\ proof_tree' = Append(proof_tree, Goal(parent, candidate, shape))
    /\ best' = NoBest
    /\ UNCHANGED <<pending, overflowed, usable_in_snapshot, snapshots, infer,
                   recursion_limit, registered, solved, reported, panicked, ret>>

\* find_best_leaf_obligation is called on the root obligation.
FindBestLeaf ==
    /\ proof_tree # <<>>
    /\ LET r == FindBestLeafObligation(proof_tree, RootObligation)
       IN best' = [leaf |-> r.leaf, steps |-> r.steps, found |-> TRUE]
    /\ UNCHANGED <<pending, overflowed, usable_in_snapshot, snapshots, infer,
                   recursion_limit, registered, solved, reported, panicked, ret,
                   proof_tree>>

NextLeaf ==
    \/ \E parent \in 1..Len(proof_tree), candidate \in 1..MaxCandidates,
          shape \in GoalShapes : AddGoal(parent, candidate, shape)
    \/ FindBestLeaf

SpecLeaf == InitLeaf /\ [][NextLeaf]_vars

\* ------------------------------------------------------- claim helpers
Roots(errors) == [k \in 1..Len(errors) |-> errors[k].root_obligation]
Obs(log) == [k \in 1..Len(log) |-> log[k].ob]
EvalsOfRound(evals, r) == LET InRound(e) == e.round = r IN SelectSeq(evals, InRound)
FailedEvals(evals) == LET Failed(e) == ~e.result.ok IN SelectSeq(evals, Failed)
Occurrences(s, id) == Cardinality({k \in 1..Len(s) : s[k].id = id})
Stored == pending \o overflowed
Returned == ret.op = "select" /\ ~panicked

\* C1: under register / select_where_possible calls, every registered
\* obligation (by registration identity) is in exactly one situation: dropped
\* on Yes, reported as the root_obligation of a returned error, or stored
\* once in pending or overflowed; pending_obligations then returns exactly the
\* stored ones, and the errors a select returns are among the reported.
C1_NoObligationLost ==
    /\ \A id \in 1..registered :
          /\ Cardinality({sit \in {"solved", "reported", "stored"} :
                 \/ sit = "solved" /\ id \in solved
                 \/ sit = "reported" /\ id \in reported
                 \/ sit = "stored" /\ id \in Ids(Stored)}) = 1
          /\ Occurrences(Stored, id) <= 1
    /\ Ids(Stored) \cup solved \cup reported \subseteq 1..registered
    /\ ret.op = "pending" => ret.obligations = Stored
    /\ Returned => /\ Ids(Roots(ret.errors)) \subseteq reported
                   /\ Ids(ret.pre.pending) \ Ids(Stored) \subseteq
                          solved \cup Ids(Roots(ret.errors))

C1_Witness ==
    /\ ret.op = "select" /\ ret.exhausted
    /\ solved # {} /\ reported # {} /\ overflowed # <<>>

\* C2: select_where_possible returns after at most recursion_limit + 1
\* rounds, whatever the solver answers; round 0 starts from the pending list
\* of the call, every round evaluates exactly the obligations that were in
\* pending when it started, and a call that ends on the budget ran exactly
\* recursion_limit + 1 rounds.
C2_Terminates ==
    Returned =>
        /\ Len(ret.starts) <= recursion_limit + 1
        /\ ret.exhausted => Len(ret.starts) = recursion_limit + 1
        /\ Len(ret.starts) >= 1 /\ ret.starts[1] = ret.pre.pending
        /\ \A r \in 1..Len(ret.starts) :
              Obs(EvalsOfRound(ret.evals, r - 1)) = ret.starts[r]
        /\ \A k \in 1..Len(ret.evals) : ret.evals[k].round < Len(ret.starts)

C2_Witness ==
    /\ Returned /\ ret.exhausted /\ recursion_limit >= 1
    /\ Len(ret.starts) = recursion_limit + 1
    /\ Len(ret.evals) >= 2
    /\ \A k \in 1..Len(ret.evals) :
          /\ ret.evals[k].result.ok /\ ret.evals[k].result.changed
          /\ ret.evals[k].result.certainty.c = "Maybe"

\* C3: when select_where_possible stops on the budget, the list it returns is
\* exactly the errors built for the NoSolution answers of its rounds, in the
\* order the answers came.
C3_ErrorsSurviveExhaustion ==
    (Returned /\ ret.exhausted) =>
        LET failed == FailedEvals(ret.evals)
        IN ret.errors = [k \in 1..Len(failed) |-> FulfillmentErrorForNoSolution(failed[k].ob)]

C3_Witness ==
    /\ Returned /\ ret.exhausted
    /\ \E k \in 1..Len(ret.evals) :
          ~ret.evals[k].result.ok /\ ret.evals[k].round + 1 < Len(ret.starts)

\* C4: the errors a budget-exhausted select_where_possible returns are a
\* prefix of the errors the same call returns under any larger recursion
\* limit, from the same store and inference state.
LargerLimits == (recursion_limit + 1)..(MaxLimit + 2)
ErrorsUnderLimit(limit) ==
    RunSelect(ret.pre.pending, ret.pre.overflowed, ret.pre.infer, limit).errors

C4_RoundMonotonicity ==
    (Returned /\ ret.exhausted) =>
        \A limit \in LargerLimits : IsPrefix(ret.errors, ErrorsUnderLimit(limit))

C4_Witness ==
    /\ Returned /\ ret.exhausted /\ ret.errors # <<>>
    /\ \E limit \in LargerLimits : Len(ErrorsUnderLimit(limit)) > Len(ret.errors)

\* ------------------------------------------------- quarantine on overflow
ChangedMaybe(result) == result.ok /\ result.changed /\ result.certainty.c = "Maybe"
Requeued(evals) ==
    LET Kept(e) == e.result.ok /\ e.result.certainty.c = "Maybe" IN SelectSeq(evals, Kept)

\* The inference state of the context when the budget ran out, and the
\* pending list the quarantine pass went through.
ExhaustionInfer == ret.evals[Len(ret.evals)].result.infer
ExhaustionPending == Obs(Requeued(EvalsOfRound(ret.evals, recursion_limit)))
Quarantined == Ids(overflowed) \ Ids(ret.pre.overflowed)

\* The inference state the k-th obligation of the pass is re-evaluated in:
\* the one its predecessors in the pass left inside the speculative region.
RECURSIVE QuarantineInfer(_, _, _)
QuarantineInfer(pend, inf, k) ==
    IF k = 1 THEN inf
    ELSE EvaluateRootGoal(pend[k - 1].pred, QuarantineInfer(pend, inf, k - 1)).infer

\* C5 as claimed: an obligation is quarantined only if its re-evaluation in
\* the inference state of the moment the budget ran out reports changed,
\* wherever it stands among the pending obligations.
C5_QuarantinePrecisionAnyPosition ==
    (Returned /\ ret.exhausted) =>
        \A k \in 1..Len(ExhaustionPending) :
            ExhaustionPending[k].id \in Quarantined =>
                OverflowPredicate(EvaluateRootGoal(ExhaustionPending[k].pred, ExhaustionInfer))

\* C5 amended: on budget exhaustion the pending obligations are re-evaluated
\* in order inside one speculative region; an obligation is quarantined
\* exactly when its re-evaluation, in the inference state its predecessors in
\* the pass left behind (the state of the moment the budget ran out for the
\* first one), answers Ok with changed; the others stay in pending, in order.
C5_QuarantinePrecisionInPass ==
    (Returned /\ ret.exhausted) =>
        LET pend == ExhaustionPending
            Moves(k) == LET r == EvaluateRootGoal(pend[k].pred,
                                     QuarantineInfer(pend, ExhaustionInfer, k))
                        IN r.ok /\ r.changed
        IN /\ \A k \in 1..Len(pend) : pend[k].id \in Quarantined <=> Moves(k)
           /\ LET Stays(o) == o.id \notin Quarantined
                  Moved(o) == o.id \in Quarantined
              IN /\ pending = SelectSeq(pend, Stays)
                 /\ overflowed = ret.pre.overflowed \o SelectSeq(pend, Moved)

\* A quarantined obligation that would not change in the state of the moment
\* the budget ran out, next to one left in pending.
C5_Witness ==
    /\ Returned /\ ret.exhausted
    /\ \E k \in 1..Len(ExhaustionPending) :
          /\ ExhaustionPending[k].id \in Quarantined
          /\ ~OverflowPredicate(EvaluateRootGoal(ExhaustionPending[k].pred, ExhaustionInfer))
    /\ pending # <<>>

\* C6: between operations an obligation instance is stored at most once, in
\* pending or in overflowed, and one that was solved or reported is stored
\* in neither.
C6_StoreExclusivity ==
    \A id \in 1..registered :
        /\ Occurrences(pending, id) + Occurrences(overflowed, id) <= 1
        /\ id \in solved \cup reported => id \notin Ids(Stored)

C6_Witness ==
    /\ pending # <<>> /\ overflowed # <<>> /\ solved \cup reported # {}
    /\ Ids(Stored) # {}

\* ------------------------------------------------------------ scenarios
\* The solver answers Maybe(Ambiguity) with changed = FALSE in every state.
AlwaysAmbiguous(pred) ==
    \A inf \in InferStates : EvaluateRootGoal(pred, inf) = Ok(FALSE, MaybeAmbiguity, inf)

NoChangeIn(evals) == \A k \in 1..Len(evals) : ~(evals[k].result.ok /\ evals[k].result.changed)

\* C7: a round of select_where_possible in which no evaluation reports
\* changed is the last one: the call returns without touching the budget and
\* pending holds the Maybe obligations of that round.  When the first round
\* is such a round, an always-ambiguous obligation is evaluated exactly once,
\* yields no error and stays pending; collect_remaining_errors called right
\* after a select that reached its fixpoint does not hit bug!(), and it
\* reports every always-ambiguous pending obligation as Ambiguity with
\* overflow = None.
C7_FixpointOnStall ==
    /\ Returned =>
          /\ \A r \in 1..Len(ret.starts) :
                NoChangeIn(EvalsOfRound(ret.evals, r - 1)) =>
                    /\ r = Len(ret.starts)
                    /\ ~ret.exhausted
                    /\ pending = Obs(Requeued(EvalsOfRound(ret.evals, r - 1)))
                    /\ overflowed = ret.pre.overflowed
          /\ NoChangeIn(EvalsOfRound(ret.evals, 0)) =>
                \A k \in 1..Len(ret.pre.pending) :
                    AlwaysAmbiguous(ret.pre.pending[k].pred) =>
                        /\ Occurrences(Obs(ret.evals), ret.pre.pending[k].id) = 1
                        /\ ret.pre.pending[k].id \notin Ids(Roots(ret.errors))
                        /\ Occurrences(pending, ret.pre.pending[k].id) = 1
    /\ ret.op = "collect" =>
          /\ (ret.follows.op = "select" /\ ~ret.follows.exhausted) => ~panicked
          /\ ~panicked =>
                \A k \in 1..Len(ret.pre.pending) :
                    AlwaysAmbiguous(ret.pre.pending[k].pred) =>
                        ret.errors[k] = [code |-> AmbiguityCode(None),
                                         root_obligation |-> ret.pre.pending[k]]

\* collect_remaining_errors right after a one-round select that stalled on an
\* always-ambiguous obligation.
C7_Witness ==
    /\ ret.op = "collect" /\ ~panicked
    /\ ret.follows = [op |-> "select", exhausted |-> FALSE, rounds |-> 1]
    /\ \E k \in 1..Len(ret.pre.pending) :
          /\ AlwaysAmbiguous(ret.pre.pending[k].pred)
          /\ ret.errors[k].code = AmbiguityCode(None)

\* C8: when every evaluation of a select_where_possible call (the rounds and
\* the quarantine pass) answers Maybe with changed, the call ends on the
\* budget with every pending obligation moved to overflowed, none left in
\* pending and no error; collect_remaining_errors reports every overflowed
\* obligation, after the pending ones, as Ambiguity with overflow =
\* Some(true), never evaluates it and empties overflowed.
C8_OverflowScenario ==
    /\ (/\ Returned /\ ret.pre.pending # <<>>
        /\ \A k \in 1..Len(ret.evals) : ChangedMaybe(ret.evals[k].result)
        /\ \A k \in 1..Len(ret.probes) : ChangedMaybe(ret.probes[k].result)) =>
          /\ ret.exhausted
          /\ pending = <<>>
          /\ overflowed = ret.pre.overflowed \o ret.pre.pending
          /\ ret.errors = <<>>
    /\ (ret.op = "collect" /\ ~panicked) =>
          /\ Len(ret.errors) = Len(ret.pre.pending) + Len(ret.pre.overflowed)
          /\ \A k \in 1..Len(ret.pre.overflowed) :
                ret.errors[Len(ret.pre.pending) + k] =
                    [code |-> AmbiguityCode(Some(TRUE)),
                     root_obligation |-> ret.pre.overflowed[k]]
          /\ Ids(Obs(ret.probes)) \cap Ids(ret.pre.overflowed) = {}
          /\ overflowed = <<>>

\* collect_remaining_errors right after a select that ran out of budget and
\* quarantined everything.
C8_Witness ==
    /\ ret.op = "collect" /\ ~panicked
    /\ ret.follows.op = "select" /\ ret.follows.exhausted
    /\ ret.pre.pending = <<>> /\ Len(ret.pre.overflowed) >= 2
    /\ \A k \in 1..Len(ret.errors) : ret.errors[k].code = AmbiguityCode(Some(TRUE))

\* ----------------------------------------------------- snapshot discipline
Mismatch == ret.pre.usable_in_snapshot # ret.pre.num_open_snapshots
StoreUntouched == pending = ret.pre.pending /\ overflowed = ret.pre.overflowed

\* C9: register_predicate_obligation compares usable_in_snapshot with the
\* number of open snapshots first; on a mismatch it panics and leaves the
\* store as it was, otherwise it appends the obligation to pending, also
\* when an equal obligation is already there.
C9_RegisterChecksSnapshot ==
    ret.op = "register" =>
        IF Mismatch
        THEN panicked /\ StoreUntouched
        ELSE /\ ~panicked
             /\ pending = Append(ret.pre.pending, ret.obligations[1])
             /\ overflowed = ret.pre.overflowed

\* A register that panicked on the mismatch, after an earlier one had
\* appended a second obligation with the same predicate.
C9_Witness ==
    /\ ret.op = "register" /\ Mismatch /\ panicked
    /\ \E j, k \in 1..Len(pending) : j < k /\ pending[j].pred = pending[k].pred

\* C10: every entry point that mutates the store panics, and leaves the
\* store as it was, when the context is not in the snapshot the engine was
\* created in.
C10_EveryEntryPointChecksSnapshot ==
    (ret.op \in {"register", "select", "collect", "drain"} /\ Mismatch) =>
        panicked /\ StoreUntouched

\* ------------------------------------------------- evaluation discipline
\* Ids reported by calls before the last one.
ReportedEarlier == reported \ Ids(Roots(ret.errors))
Evaluated == Ids(Obs(ret.evals)) \cup Ids(Obs(ret.probes))

\* C11: when the solver answers NoSolution for an obligation during
\* select_where_possible, exactly one error with that obligation as root is
\* returned, the obligation is stored neither in pending nor in overflowed,
\* and no later evaluation of the call (round or quarantine pass) is of it;
\* a select or collect call evaluates only obligations that were pending when
\* it started, and none of those was reported by an earlier call.
C11_TerminalFailureNotRetried ==
    /\ Returned =>
          \A k \in 1..Len(ret.evals) :
              ~ret.evals[k].result.ok =>
                  /\ Occurrences(Roots(ret.errors), ret.evals[k].ob.id) = 1
                  /\ ret.evals[k].ob.id \notin Ids(Stored)
                  /\ \A j \in 1..Len(ret.evals) :
                        ret.evals[j].ob.id = ret.evals[k].ob.id => j <= k
                  /\ ret.evals[k].ob.id \notin Ids(Obs(ret.probes))
    /\ ret.op \in {"select", "collect"} =>
          /\ Evaluated \subseteq Ids(ret.pre.pending)
          /\ Ids(ret.pre.pending) \cap ReportedEarlier = {}

\* A NoSolution answer in a round that is followed by another round and by
\* the quarantine pass, in a call made after an earlier call reported errors.
C11_Witness ==
    /\ Returned /\ ret.probes # <<>> /\ ReportedEarlier # {}
    /\ \E k \in 1..Len(ret.evals) :
          ~ret.evals[k].result.ok /\ ret.evals[k].round + 1 < Len(ret.starts)

SolvedAnswer(result) == result.ok /\ result.certainty.c = "Yes"
ChangedIn(evals) == \E k \in 1..Len(evals) : evals[k].result.ok /\ evals[k].result.changed

\* C12 as claimed: an obligation the solver answers Ok(changed, Yes) for is
\* dropped, and the round is followed by another round or by the budget
\* check, whatever the value of changed.
C12_SolvedCountsAsProgress ==
    Returned =>
        \A k \in 1..Len(ret.evals) :
            SolvedAnswer(ret.evals[k].result) =>
                /\ ret.evals[k].ob.id \in solved
                /\ ret.evals[k].ob.id \notin Ids(Stored)
                /\ (ret.evals[k].round + 1 < Len(ret.starts) \/ ret.exhausted)

\* C12 amended: an obligation the solver answers Ok(changed, Yes) for is
\* dropped: it is neither stored nor reported.  A round is followed by
\* another round or by the budget check exactly when one of its answers is Ok
\* with changed = true; a Yes answer with changed = false does not count.
C12_SolvedDroppedProgressByFlag ==
    Returned =>
        /\ \A k \in 1..Len(ret.evals) :
              SolvedAnswer(ret.evals[k].result) =>
                  /\ ret.evals[k].ob.id \in solved
                  /\ ret.evals[k].ob.id \notin Ids(Stored)
                  /\ ret.evals[k].ob.id \notin Ids(Roots(ret.errors))
        /\ \A r \in 1..Len(ret.starts) :
              (r < Len(ret.starts) \/ ret.exhausted) <=>
                  ChangedIn(EvalsOfRound(ret.evals, r - 1))

\* A call that stopped, budget left, after a round whose only progress was a
\* Yes answer with changed = false; an earlier round had a Yes with changed.
C12_Witness ==
    /\ Returned /\ ~ret.exhausted /\ Len(ret.starts) >= 2
    /\ \E k \in 1..Len(ret.evals) :
          /\ SolvedAnswer(ret.evals[k].result) /\ ~ret.evals[k].result.changed
          /\ ret.evals[k].round + 1 = Len(ret.starts)
    /\ \E k \in 1..Len(ret.evals) :
          SolvedAnswer(ret.evals[k].result) /\ ret.evals[k].result.changed

\* C13: in each round of select_where_possible every obligation pending when
\* the round started is evaluated exactly once and nothing else is; the
\* obligations registered again on Maybe make the pending list of the next
\* round and are evaluated there, not before; the obligations that were in
\* overflowed are evaluated neither by the rounds nor by the quarantine pass.
C13_OneEvaluationPerRound ==
    Returned =>
        /\ \A r \in 1..Len(ret.starts) :
              LET round == Obs(EvalsOfRound(ret.evals, r - 1))
              IN /\ \A k \in 1..Len(ret.starts[r]) :
                        Occurrences(round, ret.starts[r][k].id) = 1
                 /\ Ids(round) \subseteq Ids(ret.starts[r])
                 /\ r < Len(ret.starts) =>
                        ret.starts[r + 1] = Obs(Requeued(EvalsOfRound(ret.evals, r - 1)))
        /\ \A j, k \in 1..Len(ret.evals) :
              j < k => ret.evals[j].round <= ret.evals[k].round
        /\ Evaluated \cap Ids(ret.pre.overflowed) = {}

\* A call of two rounds or more, with obligations registered again for the
\* second round, made while overflowed held obligations.
C13_Witness ==
    /\ Returned /\ Len(ret.starts) >= 2 /\ ret.starts[2] # <<>>
    /\ ret.pre.overflowed # <<>>

\* ------------------------------------------------ collect_remaining_errors
\* C14: collect_remaining_errors hits bug!() exactly when the re-evaluation
\* of a pending obligation is not Maybe; otherwise it returns one error per
\* pending obligation, in order, then one per overflowed obligation, in
\* order, and leaves both lists empty.  A pending obligation re-evaluated
\* Maybe(Ambiguity) is reported as Ambiguity with overflow = None, one
\* re-evaluated Maybe(Overflow {suggest_increasing_limit}) with overflow =
\* Some(suggest_increasing_limit), an overflowed one with overflow =
\* Some(true); the root_obligation of each error is the stored obligation.
C14_CollectClassification ==
    ret.op = "collect" =>
        LET pend == ret.pre.pending
            ovf == ret.pre.overflowed
            Answer(k) == EvaluateRootGoal(pend[k].pred, ret.pre.infer)
            Stalled(k) == Answer(k).ok /\ Answer(k).certainty.c = "Maybe"
        IN /\ panicked <=> \E k \in 1..Len(pend) : ~Stalled(k)
           /\ ~panicked =>
                 /\ Len(ret.errors) = Len(pend) + Len(ovf)
                 /\ pending = <<>> /\ overflowed = <<>>
                 /\ \A k \in 1..Len(pend) :
                       /\ ret.errors[k].root_obligation = pend[k]
                       /\ ret.errors[k].code.kind = "Ambiguity"
                       /\ ret.errors[k].code.overflow =
                              IF Answer(k).certainty.cause = "Ambiguity" THEN None
                              ELSE Some(Answer(k).certainty.suggest_increasing_limit)
                 /\ \A k \in 1..Len(ovf) :
                       /\ ret.errors[Len(pend) + k].root_obligation = ovf[k]
                       /\ ret.errors[Len(pend) + k].code.kind = "Ambiguity"
                       /\ ret.errors[Len(pend) + k].code.overflow = Some(TRUE)

\* A collect that reported an ambiguous obligation, one the solver overflowed
\* on with suggest_increasing_limit = false, and a quarantined one.
C14_Witness ==
    /\ ret.op = "collect" /\ ~panicked /\ ret.pre.overflowed # <<>>
    /\ \E j, k \in 1..Len(ret.pre.pending) :
          /\ ret.errors[j].code.overflow = None
          /\ ret.errors[k].code.overflow = Some(FALSE)

\* C15: after select_where_possible returns, at its fixpoint or on the
\* budget, the solver answers Maybe, in the resulting inference state, for
\* every obligation left in pending, and a collect_remaining_errors called
\* right after does not hit bug!().
C15_NoFailingOrSolvedLeftPending ==
    /\ Returned =>
          \A k \in 1..Len(pending) :
              LET result == EvaluateRootGoal(pending[k].pred, infer)
              IN result.ok /\ result.certainty.c = "Maybe"
    /\ (ret.op = "collect" /\ ret.follows.op = "select") => ~panicked

\* C16: the re-evaluations of the quarantine pass and of
\* collect_remaining_errors run inside infcx.probe: after a select that ended
\* on the budget the inference state is the one the last round left, and
\* after collect_remaining_errors it is the one of before the call, whatever
\* the solver answered and whatever the answers did to the state.
C16_ProbesLeaveInferenceState ==
    /\ (Returned /\ ret.exhausted) => infer = ExhaustionInfer
    /\ ret.op = "collect" => infer = ret.pre.infer

\* A quarantine pass in which an evaluation moved the inference state.
C16_Witness ==
    /\ Returned /\ ret.exhausted
    /\ \E k \in 1..Len(ret.probes) : ret.probes[k].result.infer # ret.probes[k].infer

\* ------------------------------------------------- best leaf obligation
\* The goal the visit stopped at, and the obligation it was visited with.
StopGoal == IF best.steps = <<>> THEN 1 ELSE best.steps[Len(best.steps)].to
VisitedWith(k) ==
    IF k = 0 THEN ResolveVarsIfPossible(RootObligation) ELSE best.steps[k].derived
VisitedGoal(k) == IF k = 0 THEN 1 ELSE best.steps[k].to

\* The nested goals of the first candidate that neither hold nor are Misc.
Failing(goal, c) ==
    {n \in 1..Len(proof_tree) :
        /\ proof_tree[n].parent = goal /\ proof_tree[n].candidate = c
        /\ proof_tree[n].source # "Misc" /\ proof_tree[n].result # "Yes"}
Min(S) == CHOOSE x \in S : \A y \in S : x <= y
HasFailing(goal) == Failing(goal, 1) # {}
FirstFailing(goal) == Min(Failing(goal, 1))

\* The chain from a goal through the first failing nested goal of each goal,
\* and its deepest goal.
RECURSIVE DeepestOnChain(_)
DeepestOnChain(goal) ==
    IF HasFailing(goal) THEN DeepestOnChain(FirstFailing(goal)) ELSE goal

RECURSIVE SingleCandidateChain(_)
SingleCandidateChain(goal) ==
    /\ proof_tree[goal].candidates = 1
    /\ HasFailing(goal) => SingleCandidateChain(FirstFailing(goal))

RECURSIVE TraitChain(_)
TraitChain(goal) ==
    /\ proof_tree[goal].trait
    /\ HasFailing(goal) => TraitChain(FirstFailing(goal))

\* Where the descent ends: at the first goal of the chain that has not
\* exactly one candidate, has no trait predicate or has no failing nested goal.
RECURSIVE DescentEnd(_)
DescentEnd(goal) ==
    IF proof_tree[goal].candidates = 1 /\ proof_tree[goal].trait /\ HasFailing(goal)
    THEN DescentEnd(FirstFailing(goal))
    ELSE goal

\* C17 as claimed: if every goal on the chain from the root has exactly one
\* candidate, the visit stops at the deepest failing goal of the chain.
C17_SingleCandidateTransparency ==
    (best.found /\ SingleCandidateChain(1)) => StopGoal = DeepestOnChain(1)

\* C17 amended: if every goal on the chain from the root has exactly one
\* candidate and a trait predicate, the visit stops at the deepest failing
\* goal of the chain and returns the obligation it carried there.  In
\* general each step enters the first nested goal of the single candidate
\* that is not Misc and does not hold, Misc goals and goals that hold being
\* passed over, and the descent ends at the first goal that has not exactly
\* one candidate, whose predicate is not a trait predicate, or that has no
\* such nested goal; that goal's obligation is returned.
C17_SingleTraitCandidateTransparency ==
    best.found =>
        /\ (SingleCandidateChain(1) /\ TraitChain(1)) => StopGoal = DeepestOnChain(1)
        /\ StopGoal = DescentEnd(1)
        /\ best.leaf = VisitedWith(Len(best.steps))
        /\ \A k \in 1..Len(best.steps) :
              /\ best.steps[k].from = VisitedGoal(k - 1)
              /\ best.steps[k].to = FirstFailing(best.steps[k].from)

\* A chain of three goals, each with one candidate and a trait predicate.
C17_Witness ==
    /\ best.found /\ SingleCandidateChain(1) /\ TraitChain(1)
    /\ Len(best.steps) = 2

\* C18: a visited goal that has no candidate or more than one is where the
\* visit stops, and the obligation it was visited with is returned; when the
\* root is such a goal the leaf is the root obligation with its inference
\* variables resolved, whatever its candidates hold.
C18_HaltsAtAmbiguityOfBlame ==
    best.found =>
        /\ \A k \in 0..Len(best.steps) :
              proof_tree[VisitedGoal(k)].candidates # 1 =>
                  /\ k = Len(best.steps)
                  /\ best.leaf = VisitedWith(k)
        /\ proof_tree[1].candidates # 1 =>
              /\ best.steps = <<>>
              /\ best.leaf = ResolveVarsIfPossible(RootObligation)

\* A failed root with two candidates, each with a failing nested goal.
C18_Witness ==
    /\ best.found /\ proof_tree[1].candidates = 2
    /\ Failing(1, 1) # {} /\ Failing(1, 2) # {}
    /\ best.leaf = [RootObligation EXCEPT !.resolved = TRUE]

\* The ImplWhereBound nested goals that precede a nested goal in the
\* nested-goal sequence of the first candidate of its parent.
WhereBoundsBefore(goal, nested_goal) ==
    Cardinality({n \in 1..(nested_goal - 1) :
        /\ proof_tree[n].parent = goal /\ proof_tree[n].candidate = 1
        /\ proof_tree[n].source = "ImplWhereBound"})

\* C19: a step into an ImplWhereBound nested goal of an impl candidate
\* derives the cause of the parent obligation with the parent's trait
\* predicate and, as clause index, the number of ImplWhereBound nested goals
\* before it in the candidate's sequence, those that hold included, Misc and
\* InstantiateHigherRanked ones not; under a built-in candidate the derived
\* cause has no index, under any other candidate the cause is the parent's;
\* a step into an InstantiateHigherRanked nested goal keeps the parent's
\* obligation, cause included.  For an impl whose first where-clause holds
\* and whose second fails, the leaf is the obligation of the second with
\* index 1.
C19_WhereClauseIndexAlignment ==
    best.found =>
        \A k \in 1..Len(best.steps) :
            LET step == best.steps[k]
                idx == WhereBoundsBefore(step.from, step.to)
            IN /\ step.parent = VisitedWith(k - 1)
               /\ step.source = "ImplWhereBound" =>
                     /\ step.derived.predicate = step.to
                     /\ step.derived.cause =
                           CASE proof_tree[step.from].kind = "Impl" ->
                                   Append(step.parent.cause,
                                          [code |-> "ImplDerivedObligation",
                                           parent_trait_pred |-> step.from,
                                           impl_def_predicate_index |-> Some(idx)])
                             [] proof_tree[step.from].kind = "BuiltinImpl" ->
                                   Append(step.parent.cause,
                                          [code |-> "BuiltinDerivedObligation",
                                           parent_trait_pred |-> step.from,
                                           impl_def_predicate_index |-> None])
                             [] OTHER -> step.parent.cause
               /\ step.source = "InstantiateHigherRanked" =>
                     step.derived = step.parent

\* An impl candidate whose first where-clause holds and whose second fails.
C19_Witness ==
    /\ best.found /\ Len(proof_tree) = 3
    /\ proof_tree[1].kind = "Impl"
    /\ proof_tree[2].source = "ImplWhereBound" /\ proof_tree[2].result = "Yes"
    /\ proof_tree[3].source = "ImplWhereBound" /\ proof_tree[3].result # "Yes"
    /\ best.leaf.predicate = 3
    /\ best.leaf.cause = <<[code |-> "ImplDerivedObligation", parent_trait_pred |-> 1,
                            impl_def_predicate_index |-> Some(1)]>>

\* C20 as claimed: every descent step, through ImplWhereBound or through
\* InstantiateHigherRanked, gives the nested goal an obligation of strictly
\* greater recursion depth than the obligation of its parent goal.
C20_EveryStepDeepens ==
    best.found =>
        \A k \in 1..Len(best.steps) :
            best.steps[k].derived.recursion_depth > best.steps[k].parent.recursion_depth

WhereBoundSteps ==
    Cardinality({k \in 1..Len(best.steps) : best.steps[k].source = "ImplWhereBound"})

\* C20 amended: a step through ImplWhereBound gives the nested goal an
\* obligation whose recursion depth is that of the parent obligation plus
\* one; a step through InstantiateHigherRanked keeps the parent obligation
\* and its recursion depth.  The recursion depth of the leaf is that of the
\* root plus the number of ImplWhereBound steps.
C20_WhereBoundStepsDeepen ==
    best.found =>
        /\ \A k \in 1..Len(best.steps) :
              best.steps[k].derived.recursion_depth =
                  IF best.steps[k].source = "ImplWhereBound"
                  THEN best.steps[k].parent.recursion_depth + 1
                  ELSE best.steps[k].parent.recursion_depth
        /\ best.leaf.recursion_depth = RootObligation.recursion_depth + WhereBoundSteps

\* A descent of one ImplWhereBound step and one InstantiateHigherRanked step.
C20_Witness ==
    /\ best.found /\ Len(best.steps) = 2
    /\ \E j, k \in 1..2 :
          /\ best.steps[j].source = "ImplWhereBound"
          /\ best.steps[k].source = "InstantiateHigherRanked"

====
